---- MODULE Spec2Model ----
(***************************************************************************)
(* A model of rs-perm: permutations (perm.rs), the Schreier-vector levels, *)
(* stripping, the order computation and the randomized Schreier-Sims       *)
(* driver with its product-replacement sampler (group.rs).                 *)
(*                                                                         *)
(* A permutation Perm { p: Vec<usize> } is the sequence of its images: the *)
(* image of point x (0-based) is the element at position x + 1.            *)
(* An Option<&Perm> is a sequence of length 0 (None) or 1 (Some).          *)
(***************************************************************************)
EXTENDS Naturals, Sequences, FiniteSets

\* ------------------------------------------------------------------ bounds
\* Longest generator list handed to Group::new when the pure functions are
\* exercised.
MaxGens == 3
\* Largest degree at which the permutation arithmetic is exercised on every
\* triple of permutations.
MaxPermDeg == 3

\* Largest argument of cyclic_group and symmetric before the driver is run.
MaxPresetArg == 2
\* Largest degree of the symmetric preset in the end-to-end run.
MaxSymN == 3
\* Most residuals random_schreier_sims appends in a run of the model.
MaxAppend == 2

\* ----------------------------------------------------------------- perm.rs
Apply(p, point) == p[point + 1]

\* v[i] = x on a Vec (i 0-based): every vector of the model is a tuple.
SetAt(v, i, x) == SubSeq(v, 1, i) \o <<x>> \o SubSeq(v, i + 2, Len(v))

\* vec![x; n]
RECURSIVE VecOf(_, _)
VecOf(x, n) == IF n = 0 THEN <<>> ELSE Append(VecOf(x, n - 1), x)

\* (0..sz).collect()
RECURSIVE Range(_)
Range(sz) == IF sz = 0 THEN <<>> ELSE Append(Range(sz - 1), sz - 1)

Id(sz) == Range(sz)

RECURSIVE NewCycInner(_, _, _)
NewCycInner(p, c, i) ==
    IF i = Len(c) THEN p
    ELSE NewCycInner(SetAt(p, c[i + 1], c[((i + 1) % Len(c)) + 1]), c, i + 1)

RECURSIVE NewCycOuter(_, _, _)
NewCycOuter(p, cyc, k) ==
    IF k > Len(cyc) THEN p
    ELSE NewCycOuter(NewCycInner(p, cyc[k], 0), cyc, k + 1)

NewCyc(sz, cyc) == NewCycOuter(Id(sz), cyc, 1)

RECURSIVE InvLoop(_, _, _)
InvLoop(p, i, r) ==
    IF i = Len(p) THEN r
    ELSE InvLoop(p, i + 1, SetAt(r, Apply(p, i), i))

Inv(p) == InvLoop(p, 0, VecOf(0, Len(p)))

RECURSIVE ComposeSwappedLoop(_, _, _, _)
ComposeSwappedLoop(a, b, i, r) ==
    IF i = Len(a) THEN r
    ELSE ComposeSwappedLoop(a, b, i + 1, SetAt(r, i, Apply(b, Apply(a, i))))

ComposeSwapped(a, b) == ComposeSwappedLoop(a, b, 0, VecOf(0, Len(a)))

RECURSIVE ComposeLoop(_, _, _, _)
ComposeLoop(a, b, i, r) ==
    IF i = Len(a) THEN r
    ELSE ComposeLoop(a, b, i + 1, SetAt(r, i, Apply(a, Apply(b, i))))

\* self * b: apply b, then self
Compose(a, b) == ComposeLoop(a, b, 0, VecOf(0, Len(a)))

\* The bijections of 0..sz-1 (the valid permutations of degree sz).
RECURSIVE AsVec(_, _)
AsVec(f, sz) == IF sz = 0 THEN <<>> ELSE Append(AsVec(f, sz - 1), f[sz])

Perms(sz) ==
    {AsVec(f, sz) : f \in {p \in [1..sz -> 0..(sz - 1)] :
                               \A i, j \in 1..sz : p[i] = p[j] => i = j}}

\* ---------------------------------------------------------------- group.rs
\* Option<&Perm>
None == <<>>
Some(p) == <<p>>
IsNone(o) == Len(o) = 0
Unwrap(o) == o[1]

\* base.iter().all(|p| g.apply(*p) == *p)
FixesBase(g, base) == \A k \in 1..Len(base) : Apply(g, base[k]) = base[k]

\* The inner `for g in gens.iter()` of the orbit search of StabView::new.
RECURSIVE SearchGens(_, _, _, _, _)
SearchGens(gens, k, top, s, frontier) ==
    IF k > Len(gens) THEN [s |-> s, frontier |-> frontier]
    ELSE LET newp == Apply(gens[k], top)
         IN IF ~IsNone(s[newp + 1])
            THEN SearchGens(gens, k + 1, top, s, frontier)
            ELSE SearchGens(gens, k + 1, top,
                            SetAt(s, newp, Some(gens[k])),
                            Append(frontier, newp))

\* `while !frontier.is_empty()`: the frontier is a stack.
RECURSIVE Search(_, _, _)
Search(gens, s, frontier) ==
    IF frontier = <<>> THEN s
    ELSE LET top  == frontier[Len(frontier)]
             rest == SubSeq(frontier, 1, Len(frontier) - 1)
             st   == SearchGens(gens, 1, top, s, rest)
         IN Search(gens, st.s, st.frontier)

StabViewNewUnfiltered(grp, base, point) ==
    LET s0 == SetAt(VecOf(None, grp.n), point, Some(grp.id))
    IN [g |-> grp.gens, base |-> base, point |-> point, id |-> grp.id,
        schreier |-> Search(grp.gens, s0, <<point>>)]

StabViewNew(grp, base, point) ==
    LET gens == SelectSeq(grp.gens, LAMBDA g : FixesBase(g, base))
        s0   == SetAt(VecOf(None, grp.n), point, Some(grp.id))
    IN [g |-> gens, base |-> base, point |-> point, id |-> grp.id,
        schreier |-> Search(gens, s0, <<point>>)]

\* The `while curp != self.point` loop of StabView::repr.
RECURSIVE ReprWalk(_, _, _)
ReprWalk(view, curp, r) ==
    IF curp = view.point THEN r
    ELSE LET curg == Unwrap(view.schreier[curp + 1])
         IN ReprWalk(view, Apply(Inv(curg), curp), Compose(curg, r))

Repr(view, g) ==
    LET curp == Apply(g, view.point)
    IN IF IsNone(view.schreier[curp + 1]) THEN view.id
       ELSE ReprWalk(view, curp, view.id)

BaseOrbitSizeLen(view) == Len(view.schreier)

BaseOrbitSize(view) ==
    Cardinality({i \in 1..Len(view.schreier) : ~IsNone(view.schreier[i])})

\* The loop of Group::strip. `exit` records where the loop was left: the
\* 1-based index of the level of the early return, 0 when every level was
\* consumed.
RECURSIVE StripLoop(_, _, _)
StripLoop(stabchain, k, curg) ==
    IF k > Len(stabchain) THEN [res |-> curg, exit |-> 0]
    ELSE LET s    == stabchain[k]
             curp == Apply(curg, s.point)
         IN IF IsNone(s.schreier[curp + 1]) THEN [res |-> curg, exit |-> k]
            ELSE StripLoop(stabchain, k + 1, Compose(Inv(Repr(s, curg)), curg))

Strip(stabchain, g) == StripLoop(stabchain, 1, g).res

\* sub_base before the i-th push (0-based i): 0, 1, ..., i-1
SubBase(i) == Range(i)

RECURSIVE GenStabChainLoop(_, _, _)
GenStabChainLoop(grp, base, i) ==
    IF i = 0 THEN <<>>
    ELSE Append(GenStabChainLoop(grp, base, i - 1),
                StabViewNew(grp, SubBase(i - 1), i - 1))

GenStabChain(grp, base) == GenStabChainLoop(grp, base, Len(base))

\* (0..self.n).collect()
FullBase(grp) == Range(grp.n)

RECURSIVE Product(_, _)
Product(chain, k) ==
    IF k > Len(chain) THEN 1 ELSE BaseOrbitSize(chain[k]) * Product(chain, k + 1)

Sz(grp) == Product(GenStabChain(grp, FullBase(grp)), 1)

\* Group::new; its assertions are the guard GroupNewAccepts.
GroupNewAccepts(gens) ==
    /\ Len(gens) > 0
    /\ \A i \in 1..Len(gens) : Len(gens[1]) = Len(gens[i])

GroupNew(gens) == [gens |-> gens, n |-> Len(gens[1]), id |-> Id(Len(gens[1]))]

\* (1..n).collect()
OneTo(n) == IF n = 0 THEN <<>> ELSE Tail(Range(n))

CyclicGroup(n) == [n |-> n, id |-> Id(n), gens |-> <<Append(OneTo(n), 0)>>]

\* The loops `for i in 0..n { for j in (i+1)..n { gens.push(..) } }`.
RECURSIVE SymmetricLoop(_, _, _, _)
SymmetricLoop(n, i, j, gens) ==
    IF i >= n THEN gens
    ELSE IF j >= n THEN SymmetricLoop(n, i + 1, i + 2, gens)
    ELSE SymmetricLoop(n, i, j + 1, Append(gens, NewCyc(n, <<<<i, j>>>>)))

Symmetric(n) == [n |-> n, id |-> Id(n), gens |-> SymmetricLoop(n, 0, 1, <<>>)]

\* GroupRNG::new
GroupRNGNew(g) == [gens |-> g.gens, n |-> g.n, id |-> g.id]

\* The replacement of GroupRNG::step for the indices i # j and the two coins.
StepResult(gens, i, j, chooseR, chooseplus) ==
    LET pi == gens[i + 1]
        pj == gens[j + 1]
    IN SetAt(gens, i,
             IF chooseR
             THEN (IF chooseplus THEN Compose(pi, pj) ELSE Compose(pi, Inv(pj)))
             ELSE (IF chooseplus THEN Compose(pj, pi) ELSE Compose(Inv(pj), pi)))

\* ------------------------------------------------------------------- state
VARIABLES
    grp,     \* the Group value: [gens, n, id]
    pc,      \* where the program is
    call,    \* the last call of a pure function: its arguments and its result
    count,   \* random_schreier_sims: the failure counter
    grng,    \* random_schreier_sims: the sampler GroupRNG [gens, n, id]
    steps,   \* GroupRNG::draw: product-replacement steps still to take
    log      \* history: the latest iterations of random_schreier_sims

vars == <<grp, pc, call, count, grng, steps, log>>

NoGroup == [gens |-> <<>>, n |-> 0, id |-> <<>>]
NoCall == [fn |-> "none", level |-> 0, g |-> <<>>, ret |-> <<>>, exit |-> 0]

\* All non-empty sequences over S of length at most k, as tuples.
SeqsUpTo(S, k) == UNION {{AsVec(f, m) : f \in [1..m -> S]} : m \in 1..k}

\* ----------------------------------------------- the pure functions, applied
\* The strong generating set of the symmetric group on 4 points used by
\* test_repr, test_strip and test_size.
TestSGS ==
    <<NewCyc(4, <<<<0, 1, 2, 3>>>>), NewCyc(4, <<<<1, 2, 3>>>>), NewCyc(4, <<<<2, 3>>>>)>>

\* A generator list of degree 4 whose Schreier tree at point 0 has a branch
\* of two different generators.
TwoStepGens ==
    <<NewCyc(4, <<<<0, 1, 2>>>>), NewCyc(4, <<<<0, 1, 3>>>>),
      NewCyc(4, <<<<0, 2>>, <<1, 3>>>>)>>

Deg4Gens == {TestSGS[i] : i \in 1..3} \cup {TwoStepGens[i] : i \in 1..3}

\* The generator lists handed to Group::new: every list of at most MaxGens
\* permutations of degree 3, every list of fewer than MaxGens elements of
\* Deg4Gens, and the two lists above.
GenLists ==
    SeqsUpTo(Perms(3), MaxGens) \cup SeqsUpTo(Deg4Gens, MaxGens - 1)
        \cup {TestSGS, TwoStepGens}

InitPure ==
    /\ grp \in {GroupNew(l) : l \in GenLists}
    /\ pc = "ready"
    /\ call = NoCall
    /\ count = 0 /\ grng = NoGroup /\ steps = 0 /\ log = <<>>

\* s = StabView::new(&grp, [0, level), level); s.repr(&g)
CallRepr(level, g) ==
    /\ pc = "ready"
    /\ call' = [fn |-> "repr", level |-> level, g |-> g,
                ret |-> Repr(StabViewNew(grp, SubBase(level), level), g), exit |-> 0]
    /\ pc' = "returned"
    /\ UNCHANGED <<grp, count, grng, steps, log>>

\* grp.strip(&grp.gen_stab_chain(&(0..n).collect()), &g)
CallStrip(g) ==
    /\ pc = "ready"
    /\ LET r == StripLoop(GenStabChain(grp, FullBase(grp)), 1, g)
       IN call' = [fn |-> "strip", level |-> 0, g |-> g, ret |-> r.res, exit |-> r.exit]
    /\ pc' = "returned"
    /\ UNCHANGED <<grp, count, grng, steps, log>>

\* grp.sz()
CallSz ==
    /\ pc = "ready"
    /\ call' = [fn |-> "sz", level |-> 0, g |-> <<>>, ret |-> Sz(grp), exit |-> 0]
    /\ pc' = "returned"
    /\ UNCHANGED <<grp, count, grng, steps, log>>

NextPure ==
    \/ \E level \in 0..(grp.n - 1), g \in Perms(grp.n) : CallRepr(level, g)
    \/ \E g \in Perms(grp.n) : CallStrip(g)
    \/ CallSz

SpecPure == InitPure /\ [][NextPure]_vars

\* ------------------------------------------------ the permutation arithmetic
InitPerm ==
    /\ grp = NoGroup
    /\ pc = "arith"
    /\ call = NoCall
    /\ count = 0 /\ grng = NoGroup /\ steps = 0 /\ log = <<>>

\* a.inv(), a.compose(&b), ... on permutations of one degree
CallPermOps(a, b, c) ==
    /\ pc = "arith"
    /\ call' = [fn |-> "perm", level |-> Len(a), g |-> <<a, b, c>>,
                ret |-> [a_inva |-> Compose(a, Inv(a)),
                         ab |-> Compose(a, b),
                         ab_c |-> Compose(Compose(a, b), c),
                         a_bc |-> Compose(a, Compose(b, c)),
                         id_a |-> Compose(Id(Len(a)), a),
                         a_id |-> Compose(a, Id(Len(a)))],
                exit |-> 0]
    /\ pc' = "returned"
    /\ UNCHANGED <<grp, count, grng, steps, log>>

NextPerm ==
    \E d \in 0..MaxPermDeg : \E a, b, c \in Perms(d) : CallPermOps(a, b, c)

SpecPerm == InitPerm /\ [][NextPerm]_vars

\* ------------------------------------------------------------ group theory
\* The group generated by the permutations of the sequence gens (degree n):
\* the closure of the identity under multiplication by the generators.
RECURSIVE Close(_, _)
Close(T, gens) ==
    LET T2 == T \cup {Compose(a, gens[k]) : a \in T, k \in 1..Len(gens)}
    IN IF T2 = T THEN T ELSE Close(T2, gens)

Generated(gens, n) == Close({Id(n)}, gens)

\* gens is a strong generating set relative to the base 0, 1, ..., n-1: for
\* every i the generators fixing 0..i-1 generate the whole subgroup of the
\* elements fixing 0..i-1.
IsSGS(gens, n) ==
    \A i \in 0..(n - 1) :
        Generated(SelectSeq(gens, LAMBDA g : FixesBase(g, SubBase(i))), n)
            = {x \in Generated(gens, n) : FixesBase(x, SubBase(i))}

ReprCalled == pc = "returned" /\ call.fn = "repr"
StripCalled == pc = "returned" /\ call.fn = "strip"
SzCalled == pc = "returned" /\ call.fn = "sz"
\* The level of the call of repr, and whether the image of its point under
\* g is reached in its Schreier vector.
CallView == StabViewNew(grp, SubBase(call.level), call.level)
Reached(view, g) == ~IsNone(view.schreier[Apply(g, view.point) + 1])

\* ------------------------------------------------------------------ claims
\* C1: at every level built by StabView::new, for every g whose image of the
\* level's point is reached in the Schreier vector, repr(g) sends the point
\* to the same image as g.
C1_ReprSendsPointToImage ==
    (ReprCalled /\ Reached(CallView, call.g))
        => Apply(call.ret, call.level) = Apply(call.g, call.level)

\* C2: when the generator list is a strong generating set relative to the
\* base 0..n-1, strip against the chain of gen_stab_chain returns the
\* identity for every element of the generated group.
C2_StripOfMemberIsIdentity ==
    (StripCalled /\ call.g \in Generated(grp.gens, grp.n) /\ IsSGS(grp.gens, grp.n))
        => call.ret = grp.id

C5_EqualReprIffSameImage ==
    ReprCalled =>
        \A h \in Perms(grp.n) :
            (Repr(CallView, h) = call.ret)
                <=> (Apply(h, call.level) = Apply(call.g, call.level))

\* C10: a call of strip on the chain over the full base that consumes every
\* level returns the identity (so a non-identity result comes from the
\* early return).
C10_ConsumedAllLevelsGivesIdentity ==
    (StripCalled /\ call.exit = 0) => call.ret = grp.id

\* C10 witness: strip consumed every level for a non-identity element
\* against a generator list that is not a strong generating set.
C10_Witness ==
    /\ StripCalled /\ call.exit = 0 /\ call.g # grp.id
    /\ ~IsSGS(grp.gens, grp.n)

PermOpsCalled == pc = "returned" /\ call.fn = "perm"

\* C9: for bijective a, b, c of one degree: compose(a, inv(a)) is the
\* identity, compose is associative, the identity is neutral on both sides,
\* and compose(a, b) applies b first and then a.
C9_PermutationGroupAxioms ==
    PermOpsCalled =>
        LET a == call.g[1]
            b == call.g[2]
        IN /\ call.ret.a_inva = Id(call.level)
           /\ call.ret.ab_c = call.ret.a_bc
           /\ call.ret.id_a = a
           /\ call.ret.a_id = a
           /\ \A x \in 0..(call.level - 1) :
                  Apply(call.ret.ab, x) = Apply(a, Apply(b, x))

\* C9 witness: the operations were applied to three non-identity
\* permutations of degree 3 of which the first two do not commute.
C9_Witness ==
    /\ PermOpsCalled /\ call.level = 3
    /\ \A k \in 1..3 : call.g[k] # Id(3)
    /\ call.ret.ab # Compose(call.g[2], call.g[1])
    /\ call.g[3] # call.g[1] /\ call.g[3] # call.g[2]

\* ----------------------------------------------- construction and the driver
\* Generators of degree 3 for the groups the driver is run on.
DriverGens == {NewCyc(3, <<<<0, 1>>>>), NewCyc(3, <<<<1, 2>>>>), NewCyc(3, <<<<0, 1, 2>>>>)}

\* The arguments of Group::new: the lists of one or two elements of
\* DriverGens (a pool of k permutations of degree 3 takes up to 6^k values;
\* a pool of three is run by symmetric(3)), the empty list and a list of
\* mismatched degrees.
NewLists ==
    SeqsUpTo(DriverGens, 2) \cup {<<>>, <<Id(3), Id(2)>>}

Init ==
    /\ grp = NoGroup
    /\ pc = "start"
    /\ call = NoCall
    /\ count = 0 /\ grng = NoGroup /\ steps = 0 /\ log = <<>>

\* Group::new(gens): a failed assertion leaves no Group value.
CallGroupNew(gens) ==
    /\ pc = "start"
    /\ IF GroupNewAccepts(gens)
       THEN grp' = GroupNew(gens) /\ pc' = "built"
       ELSE grp' = grp /\ pc' = "rejected"
    /\ UNCHANGED <<call, count, grng, steps, log>>

CallCyclicGroup(n) ==
    /\ pc = "start"
    /\ grp' = CyclicGroup(n)
    /\ pc' = "built"
    /\ UNCHANGED <<call, count, grng, steps, log>>

CallSymmetric(n) ==
    /\ pc = "start"
    /\ grp' = Symmetric(n)
    /\ pc' = "built"
    /\ UNCHANGED <<call, count, grng, steps, log>>

\* random_schreier_sims, lines 212-215: the counter and the sampler.
Begin ==
    /\ pc = "built"
    /\ count' = 0
    /\ grng' = GroupRNGNew(grp)
    /\ pc' = "loop"
    /\ UNCHANGED <<grp, call, steps, log>>

\* `while count < self.n`, true: the chain is built and draw() starts its
\* 4*n steps.
Iterate ==
    /\ pc = "loop"
    /\ count < grp.n
    /\ steps' = 4 * grng.n
    /\ pc' = "draw"
    /\ UNCHANGED <<grp, call, count, grng, log>>

\* `while count < self.n`, false: random_schreier_sims returns.
Return ==
    /\ pc = "loop"
    /\ ~(count < grp.n)
    /\ pc' = "done"
    /\ UNCHANGED <<grp, call, count, grng, steps, log>>

\* GroupRNG::step with the values i, v of gen_range and the two coins.
Step(i, v, chooseR, chooseplus) ==
    /\ pc = "draw"
    /\ steps > 0
    /\ i \in 0..(Len(grng.gens) - 1)
    /\ v \in 0..(Len(grng.gens) - 2)
    /\ LET j == IF v >= i THEN v + 1 ELSE v
       IN grng' = [grng EXCEPT !.gens = StepResult(grng.gens, i, j, chooseR, chooseplus)]
    /\ steps' = steps - 1
    /\ UNCHANGED <<grp, pc, call, count, log>>

\* GroupRNG::step on a pool of fewer than two permutations: gen_range is
\* given an empty range and panics.
StepPanics ==
    /\ pc = "draw"
    /\ steps > 0
    /\ Len(grng.gens) < 2
    /\ pc' = "panic"
    /\ UNCHANGED <<grp, call, count, grng, steps, log>>

\* Lines 228-234: the counter after an iteration whose residual is stripped.
NextCountNoReset(stripped, id, cnt) == cnt + 1

NextCount(stripped, id, cnt) == IF stripped # id THEN 0 ELSE cnt + 1

\* The latest grp.n iterations.
Logged(e) == IF Len(log) < grp.n THEN Append(log, e) ELSE Append(Tail(log), e)

\* The iteration with the residual inserted at the front of the generator
\* list instead of pushed at its end.
DrawAndStripPrepend(i) ==
    /\ pc = "draw"
    /\ steps = 0
    /\ i \in 0..(Len(grng.gens) - 1)
    /\ LET rnd      == grng.gens[i + 1]
           stripped == Strip(GenStabChain(grp, FullBase(grp)), rnd)
       IN /\ IF stripped # grp.id
             THEN /\ Len(grp.gens) - Len(grng.gens) < MaxAppend
                  /\ grp' = [grp EXCEPT !.gens = <<stripped>> \o grp.gens]
             ELSE grp' = grp
          /\ count' = NextCount(stripped, grp.id, count)
          /\ log' = Logged([stripped |-> stripped, gens |-> grp.gens, count |-> count])
    /\ pc' = "loop"
    /\ UNCHANGED <<call, grng, steps>>

\* The end of draw() (the element i of the pool is returned) and the rest of
\* the iteration: strip, then append the residual or count the failure.
DrawAndStrip(i) ==
    /\ pc = "draw"
    /\ steps = 0
    /\ i \in 0..(Len(grng.gens) - 1)
    /\ LET rnd      == grng.gens[i + 1]
           stripped == Strip(GenStabChain(grp, FullBase(grp)), rnd)
       IN /\ IF stripped # grp.id
             THEN /\ Len(grp.gens) - Len(grng.gens) < MaxAppend
                  /\ grp' = [grp EXCEPT !.gens = Append(grp.gens, stripped)]
             ELSE grp' = grp
          /\ count' = NextCount(stripped, grp.id, count)
          /\ log' = Logged([stripped |-> stripped, gens |-> grp.gens, count |-> count])
    /\ pc' = "loop"
    /\ UNCHANGED <<call, grng, steps>>

NextDriver ==
    \/ Begin
    \/ Iterate
    \/ Return
    \/ \E i, v \in 0..(Len(grng.gens) - 1), chooseR, chooseplus \in BOOLEAN :
           Step(i, v, chooseR, chooseplus)
    \/ StepPanics
    \/ \E i \in 0..(Len(grng.gens) - 1) : DrawAndStrip(i)

Next ==
    \/ \E gens \in NewLists : CallGroupNew(gens)
    \/ \E n \in 0..MaxPresetArg : CallCyclicGroup(n)
    \/ \E n \in 0..MaxPresetArg : CallSymmetric(n)
    \/ NextDriver

Spec == Init /\ [][Next]_vars

\* The end-to-end run of test_schreier on the symmetric preset.  symmetric(2)
\* has the single generator (0 1): the sampler's pool has one element and
\* step panics, which is why the run is stated for n >= 3.
InitSym ==
    /\ grp \in {Symmetric(n) : n \in 2..MaxSymN}
    /\ pc = "built"
    /\ call = NoCall
    /\ count = 0 /\ grng = NoGroup /\ steps = 0 /\ log = <<>>

SpecSym == InitSym /\ [][NextDriver]_vars

RECURSIVE Factorial(_)
Factorial(n) == IF n = 0 THEN 1 ELSE n * Factorial(n - 1)

RECURSIVE OrbitTotalFrom(_, _)
OrbitTotalFrom(chain, k) ==
    IF k > Len(chain) THEN 0 ELSE BaseOrbitSize(chain[k]) + OrbitTotalFrom(chain, k + 1)

OrbitTotal(gens) ==
    OrbitTotalFrom(GenStabChain([grp EXCEPT !.gens = gens], FullBase(grp)), 1)

LastLogged == log[Len(log)]

\* C6: random_schreier_sims terminates for every sequence of draws because
\* only finitely many residuals can be appended: every iteration that appends
\* a residual strictly enlarges the orbit of some level of the chain (the
\* orbits have at most n(n+1)/2 points in total), so the appends stop and the
\* counter reaches n.
C6_EveryAppendEnlargesTheChain ==
    (pc = "loop" /\ log # <<>> /\ LastLogged.stripped # grp.id)
        => OrbitTotal(grp.gens) > OrbitTotal(LastLogged.gens)

C8_GroupInvariant ==
    pc \notin {"start", "rejected"} =>
        /\ Len(grp.gens) > 0
        /\ \A k \in 1..Len(grp.gens) : Len(grp.gens[k]) = grp.n
        /\ grp.id = Id(grp.n)

\* The group generated by a generator list, as permutations of the degree of
\* the generators themselves (cyclic_group(0) has n = 0 and one generator of
\* degree 1); an empty list generates the trivial group of degree n.
GeneratedBy(gens, n) ==
    Close({Id(IF gens = <<>> THEN n ELSE Len(gens[1]))}, gens)

\* The pool of the sampler lies in the group generated by the generator list.
PoolInGroup ==
    LET G == GeneratedBy(grp.gens, grp.n)
    IN \A k \in 1..Len(grng.gens) : grng.gens[k] \in G

\* The generator list is kept as a prefix and one permutation is appended,
\* a non-identity element of the group generated before the step, so that
\* the generated group is as it was.
GroupExtended ==
    /\ Len(grp'.gens) >= Len(grp.gens)
    /\ SubSeq(grp'.gens, 1, Len(grp.gens)) = grp.gens
    /\ grp'.n = grp.n /\ grp'.id = grp.id
    /\ grp'.gens # grp.gens =>
           /\ Len(grp'.gens) = Len(grp.gens) + 1
           /\ grp'.gens[Len(grp'.gens)] # grp.id
           /\ grp'.gens[Len(grp'.gens)] \in GeneratedBy(grp.gens, grp.n)
    /\ GeneratedBy(grp'.gens, grp.n) = GeneratedBy(grp.gens, grp.n)

\* A step of the driver leaves the Group as it is or appends to it as above.
GroupKept ==
    \/ grp' = grp
    \/ GroupExtended

\* C11: random_schreier_sims never changes which group is generated: in
\* every state of a run the generators of the preceding states are an
\* unchanged prefix of the generator list (so the original generators are),
\* every element of the sampler pool, after any number of product-replacement
\* steps, belongs to the group generated by the list, every appended residual
\* is a non-identity element of that group, and every step, hence the whole
\* run from entry to return, leaves the generated group as it was.
C11_GeneratedGroupIsKept ==
    /\ [](pc \in {"loop", "draw", "done", "panic"} => PoolInGroup)
    /\ [][(pc \in {"built", "loop", "draw"}) => GroupKept]_vars

\* The driver has returned after appending a residual, with a pool that the
\* product-replacement steps have moved away from the original generators.
C11_Witness ==
    /\ pc = "done"
    /\ Len(grp.gens) > Len(grng.gens)
    /\ grng.gens # SubSeq(grp.gens, 1, Len(grng.gens))
    /\ Cardinality(GeneratedBy(grp.gens, grp.n)) > 1

====
